---- MODULE Spec2Model ----
(***************************************************************************)
(* Model of src/resources/checkout_session_ext.rs: the request records of  *)
(* the checkout-session creation call, their derived serialization, and    *)
(* CheckoutSession::create, which forwards the request to the client's     *)
(* post_form.                                                              *)
(*                                                                         *)
(* The encoded payload is modelled at the level of serde's data model: the *)
(* tree of fields the derived Serialize implementation hands to the        *)
(* serializer.  A struct is the sequence of its emitted fields, in         *)
(* declaration order; a field whose skip_serializing_if predicate holds is *)
(* not emitted; an Option without that attribute is emitted as the none    *)
(* marker when it is None.                                                 *)
(***************************************************************************)
EXTENDS Naturals, Sequences, FiniteSets

VARIABLES
    params,     \* the request value under serialization
    encoded,    \* whether params has been serialized
    payload,    \* the serialized form of params (once encoded)
    called,     \* params of each call of CheckoutSession::create, in order
    submitted,  \* the transport's log: every post_form submission, in order
    returned    \* the result each call of create returned, in order

vars == <<params, encoded, payload, called, submitted, returned>>

-----------------------------------------------------------------------------
(* Bounds *)

\* longest payment_method_types / images / dynamic_tax_rates list
MaxList == 1

\* most line items in a request
MaxItems == 1

\* most calls of create in one behaviour
MaxCalls == 3

-----------------------------------------------------------------------------
(* Option<T>: None is the empty sequence, Some(v) the one-element sequence *)

None == << >>

Some(v) == <<v>>

IsSome(o) == Len(o) = 1

Option(S) == {None} \cup {Some(v) : v \in S}

SeqsUpTo(S, n) == UNION {[1..k -> S] : k \in 0..n}

-----------------------------------------------------------------------------
(* serde data model values *)

SerStr(s) == [t |-> "str", s |-> s]

SerInt(n) == [t |-> "int", n |-> n]

SerNone == [t |-> "none"]

SerSeq(items) == [t |-> "seq", items |-> items]

SerStruct(fields) == [t |-> "struct", fields |-> fields]

\* a field that is always emitted
Field(k, v) == <<[k |-> k, v |-> v]>>

\* a skip attribute that never skips: None is emitted as the none marker
FieldSkipNone_NeverSkips(k, ev) ==
    <<[k |-> k, v |-> IF Len(ev) = 1 THEN ev[1] ELSE [t |-> "none"]]>>

\* #[serde(skip_serializing_if = "Option::is_none")]: ev is the Option of
\* the already serialized value; nothing is emitted for None
FieldSkipNone(k, ev) == [i \in 1..Len(ev) |-> [k |-> k, v |-> ev[i]]]

\* an Option field without the attribute: None is emitted as the none marker
FieldOption(k, ev) == <<[k |-> k, v |-> IF IsSome(ev) THEN ev[1] ELSE SerNone]>>

SerStrOpt(o) == [i \in 1..Len(o) |-> SerStr(o[i])]

SerStrSeq(xs) == SerSeq([i \in 1..Len(xs) |-> SerStr(xs[i])])

SerStrSeqOpt(o) == [i \in 1..Len(o) |-> SerStrSeq(o[i])]

-----------------------------------------------------------------------------
(* Types defined outside checkout_session_ext.rs: their wire names *)

SerializeCustomerId(id) == SerStr(id)

SerializeCurrency(c) ==
    SerStr(CASE c = "USD" -> "usd" [] c = "EUR" -> "eur")

SerializeLocale(l) ==
    SerStr(CASE l = "Auto" -> "auto" [] l = "Nl" -> "nl")

SerializeMode(m) ==
    SerStr(CASE m = "Payment" -> "payment"
             [] m = "Setup" -> "setup"
             [] m = "Subscription" -> "subscription")

SerializeSubmitType(s) ==
    SerStr(CASE s = "Auto" -> "auto"
             [] s = "Book" -> "book"
             [] s = "Donate" -> "donate"
             [] s = "Pay" -> "pay")

-----------------------------------------------------------------------------
(* The derived Serialize implementations *)

\* CheckoutSessionLineItemPriceDataProductData: description carries no
\* skip_serializing_if attribute
SerializeProductData(pd) ==
    SerStruct(Field("name", SerStr(pd.name))
              \o FieldOption("description", SerStrOpt(pd.description)))

\* CheckoutSessionLineItemPriceData
SerializePriceData(d) ==
    SerStruct(Field("unit_amount", SerInt(d.unit_amount))
              \o Field("currency", SerializeCurrency(d.currency))
              \o Field("product_data", SerializeProductData(d.product_data)))

\* CheckoutSessionLineItem
SerializeLineItem(li) ==
    SerStruct(Field("quantity", SerInt(li.quantity))
              \o Field("price_data", SerializePriceData(li.price_data))
              \o FieldSkipNone("description", SerStrOpt(li.description))
              \o FieldSkipNone("images", SerStrSeqOpt(li.images))
              \o FieldSkipNone("dynamic_tax_rates",
                               SerStrSeqOpt(li.dynamic_tax_rates)))

SerLineItems(xs) == SerSeq([i \in 1..Len(xs) |-> SerializeLineItem(xs[i])])

SerLineItemsOpt(o) == [i \in 1..Len(o) |-> SerLineItems(o[i])]

SerCustomerOpt(o) == [i \in 1..Len(o) |-> SerializeCustomerId(o[i])]

SerLocaleOpt(o) == [i \in 1..Len(o) |-> SerializeLocale(o[i])]

SerModeOpt(o) == [i \in 1..Len(o) |-> SerializeMode(o[i])]

SerSubmitTypeOpt(o) == [i \in 1..Len(o) |-> SerializeSubmitType(o[i])]

\* CreateCheckoutSession with the attribute missing on submit_type
SerializeCreateCheckoutSession_NoSkipSubmitType(p) ==
    SerStruct(Field("cancel_url", SerStr(p.cancel_url))
              \o Field("payment_method_types", SerStrSeq(p.payment_method_types))
              \o Field("success_url", SerStr(p.success_url))
              \o FieldSkipNone("client_reference_id",
                               SerStrOpt(p.client_reference_id))
              \o FieldSkipNone("customer", SerCustomerOpt(p.customer))
              \o FieldSkipNone("customer_email", SerStrOpt(p.customer_email))
              \o FieldSkipNone("billing_address_collection",
                               SerStrOpt(p.billing_address_collection))
              \o FieldSkipNone("line_items", SerLineItemsOpt(p.line_items))
              \o FieldSkipNone("locale", SerLocaleOpt(p.locale))
              \o FieldSkipNone("mode", SerModeOpt(p.mode))
              \o FieldOption("submit_type", SerSubmitTypeOpt(p.submit_type)))

\* CreateCheckoutSession with success_url carrying the cancel URL
SerializeCreateCheckoutSession_SwappedUrl(p) ==
    SerStruct(Field("cancel_url", SerStr(p.cancel_url))
              \o Field("payment_method_types", SerStrSeq(p.payment_method_types))
              \o Field("success_url", SerStr(p.cancel_url))
              \o FieldSkipNone("client_reference_id",
                               SerStrOpt(p.client_reference_id))
              \o FieldSkipNone("customer", SerCustomerOpt(p.customer))
              \o FieldSkipNone("customer_email", SerStrOpt(p.customer_email))
              \o FieldSkipNone("billing_address_collection",
                               SerStrOpt(p.billing_address_collection))
              \o FieldSkipNone("line_items", SerLineItemsOpt(p.line_items))
              \o FieldSkipNone("locale", SerLocaleOpt(p.locale))
              \o FieldSkipNone("mode", SerModeOpt(p.mode))
              \o FieldSkipNone("submit_type", SerSubmitTypeOpt(p.submit_type)))

\* CreateCheckoutSession with customer dropped whenever customer_email is set
SerializeCreateCheckoutSession_EmailHidesCustomer(p) ==
    SerStruct(Field("cancel_url", SerStr(p.cancel_url))
              \o Field("payment_method_types", SerStrSeq(p.payment_method_types))
              \o Field("success_url", SerStr(p.success_url))
              \o FieldSkipNone("client_reference_id",
                               SerStrOpt(p.client_reference_id))
              \o FieldSkipNone("customer",
                               IF IsSome(p.customer_email)
                               THEN None ELSE SerCustomerOpt(p.customer))
              \o FieldSkipNone("customer_email", SerStrOpt(p.customer_email))
              \o FieldSkipNone("billing_address_collection",
                               SerStrOpt(p.billing_address_collection))
              \o FieldSkipNone("line_items", SerLineItemsOpt(p.line_items))
              \o FieldSkipNone("locale", SerLocaleOpt(p.locale))
              \o FieldSkipNone("mode", SerModeOpt(p.mode))
              \o FieldSkipNone("submit_type", SerSubmitTypeOpt(p.submit_type)))

\* CreateCheckoutSession
SerializeCreateCheckoutSession(p) ==
    SerStruct(Field("cancel_url", SerStr(p.cancel_url))
              \o Field("payment_method_types", SerStrSeq(p.payment_method_types))
              \o Field("success_url", SerStr(p.success_url))
              \o FieldSkipNone("client_reference_id",
                               SerStrOpt(p.client_reference_id))
              \o FieldSkipNone("customer", SerCustomerOpt(p.customer))
              \o FieldSkipNone("customer_email", SerStrOpt(p.customer_email))
              \o FieldSkipNone("billing_address_collection",
                               SerStrOpt(p.billing_address_collection))
              \o FieldSkipNone("line_items", SerLineItemsOpt(p.line_items))
              \o FieldSkipNone("locale", SerLocaleOpt(p.locale))
              \o FieldSkipNone("mode", SerModeOpt(p.mode))
              \o FieldSkipNone("submit_type", SerSubmitTypeOpt(p.submit_type)))

-----------------------------------------------------------------------------
(* Reading a serialized struct *)

Keys(sv) == {sv.fields[i].k : i \in 1..Len(sv.fields)}

HasKey(sv, k) == \E i \in 1..Len(sv.fields) : sv.fields[i].k = k

\* the values emitted under key k
ValuesAt(sv, k) == {sv.fields[i].v : i \in {j \in 1..Len(sv.fields) : sv.fields[j].k = k}}

NoDuplicateKeys(sv) ==
    \A i, j \in 1..Len(sv.fields) : sv.fields[i].k = sv.fields[j].k => i = j

-----------------------------------------------------------------------------
(* Request values *)

ProductDatas ==
    [name : {"T-shirt"}, description : Option({"cotton"})]

PriceDatas ==
    [unit_amount : {1500}, currency : {"USD", "EUR"}, product_data : ProductDatas]

LineItems ==
    [quantity : {0, 2},
     price_data : PriceDatas,
     description : Option({"a shirt"}),
     images : Option(SeqsUpTo({"https://a/i.png"}, MaxList)),
     dynamic_tax_rates : Option(SeqsUpTo({"txr_1"}, MaxList))]

BasicItem ==
    [quantity |-> 2,
     price_data |-> [unit_amount |-> 1500, currency |-> "USD",
                     product_data |-> [name |-> "T-shirt", description |-> None]],
     description |-> None, images |-> None, dynamic_tax_rates |-> None]

\* requests whose top-level fields vary
TopParams ==
    [cancel_url : {"", "https://a/x"},
     payment_method_types : SeqsUpTo({"card", "ideal"}, MaxList),
     success_url : {"https://a/y"},
     client_reference_id : Option({"cart_1"}),
     customer : Option({"cus_1"}),
     customer_email : Option({"a@b.com"}),
     billing_address_collection : Option({"auto", "bogus"}),
     line_items : {None, Some(<< >>), Some(<<BasicItem>>)},
     locale : Option({"Auto"}),
     mode : Option({"Payment", "Setup"}),
     submit_type : Option({"Pay"})]

\* requests whose line items vary
ItemParams ==
    [cancel_url : {"https://a/x"},
     payment_method_types : {<<"card">>},
     success_url : {"https://a/y"},
     client_reference_id : {None},
     customer : {None},
     customer_email : Option({"a@b.com"}),
     billing_address_collection : {None},
     line_items : Option(SeqsUpTo(LineItems, MaxItems)),
     locale : {None},
     mode : {None},
     submit_type : {None}]

Params == TopParams \cup ItemParams

NotEncoded == SerNone

-----------------------------------------------------------------------------
(* Serialization of one request value *)

InitEncode ==
    /\ params \in Params
    /\ encoded = FALSE
    /\ payload = NotEncoded
    /\ called = << >>
    /\ submitted = << >>
    /\ returned = << >>

\* Serialize::serialize on the request
Encode ==
    /\ ~encoded
    /\ encoded' = TRUE
    /\ payload' = SerializeCreateCheckoutSession(params)
    /\ UNCHANGED <<params, called, submitted, returned>>

NextEncode == Encode

SpecEncode == InitEncode /\ [][NextEncode]_vars

-----------------------------------------------------------------------------
(* Properties of the serialization *)

MandatoryKeys == {"cancel_url", "payment_method_types", "success_url"}

OptionalKeys ==
    {"client_reference_id", "customer", "customer_email",
     "billing_address_collection", "line_items", "locale", "mode", "submit_type"}

ItemOptionalKeys == {"description", "images", "dynamic_tax_rates"}

\* the optional fields of p that are set
SetOptionalKeys(p) == {k \in OptionalKeys : IsSome(p[k])}

\* C1: a request with all eight optional fields unset encodes to exactly the
\* three mandatory keys cancel_url, payment_method_types and success_url.
C1_MandatoryOnly ==
    (encoded /\ SetOptionalKeys(params) = {}) =>
        /\ Keys(payload) = MandatoryKeys
        /\ Len(payload.fields) = Cardinality(MandatoryKeys)

C1_Witness ==
    /\ encoded
    /\ SetOptionalKeys(params) = {}
    /\ params.cancel_url = "https://a/x"
    /\ params.success_url = "https://a/y"
    /\ params.payment_method_types = <<"card">>
    /\ Len(payload.fields) = 3

\* sv emits no none marker and no key of an unset optional field of rec
OmitsUnset(sv, rec, optKeys) ==
    /\ \A k \in optKeys : ~IsSome(rec[k]) => ~HasKey(sv, k)
    /\ \A i \in 1..Len(sv.fields) : sv.fields[i].v # SerNone

TheOnly(S) == CHOOSE x \in S : TRUE

\* C2: at every nesting level (request, line item, price data, product
\* data) an unset optional field is absent from the payload and never
\* encoded as a none marker.
C2_UnsetAbsentEverywhere ==
    encoded =>
        /\ OmitsUnset(payload, params, OptionalKeys)
        /\ IsSome(params.line_items) =>
             LET lis == params.line_items[1]
                 sitems == TheOnly(ValuesAt(payload, "line_items")).items
             IN  \A i \in 1..Len(lis) :
                    LET sprice == TheOnly(ValuesAt(sitems[i], "price_data"))
                        sprod == TheOnly(ValuesAt(sprice, "product_data"))
                    IN  /\ OmitsUnset(sitems[i], lis[i], ItemOptionalKeys)
                        /\ OmitsUnset(sprice, lis[i].price_data, {})
                        /\ OmitsUnset(sprod, lis[i].price_data.product_data,
                                      {"description"})

\* C3: every set optional field appears under its key with exactly its
\* value, and the mandatory fields appear with exactly the values supplied.
C3_ExactValues ==
    encoded =>
        /\ ValuesAt(payload, "cancel_url") = {SerStr(params.cancel_url)}
        /\ ValuesAt(payload, "success_url") = {SerStr(params.success_url)}
        /\ ValuesAt(payload, "payment_method_types")
             = {SerStrSeq(params.payment_method_types)}
        /\ IsSome(params.client_reference_id) =>
             ValuesAt(payload, "client_reference_id")
               = {SerStr(params.client_reference_id[1])}
        /\ IsSome(params.customer) =>
             ValuesAt(payload, "customer") = {SerStr(params.customer[1])}
        /\ IsSome(params.customer_email) =>
             ValuesAt(payload, "customer_email")
               = {SerStr(params.customer_email[1])}
        /\ IsSome(params.billing_address_collection) =>
             ValuesAt(payload, "billing_address_collection")
               = {SerStr(params.billing_address_collection[1])}
        /\ IsSome(params.line_items) =>
             ValuesAt(payload, "line_items")
               = {SerLineItems(params.line_items[1])}
        /\ IsSome(params.locale) =>
             ValuesAt(payload, "locale") = {SerializeLocale(params.locale[1])}
        /\ IsSome(params.mode) =>
             ValuesAt(payload, "mode") = {SerializeMode(params.mode[1])}
        /\ IsSome(params.submit_type) =>
             ValuesAt(payload, "submit_type")
               = {SerializeSubmitType(params.submit_type[1])}

C3_Witness ==
    /\ encoded
    /\ SetOptionalKeys(params) = OptionalKeys
    /\ params.cancel_url # params.success_url
    /\ ValuesAt(payload, "billing_address_collection") = {SerStr("bogus")}
    /\ ValuesAt(payload, "mode") = {SerStr("setup")}

\* C4: the payload's top-level keys are the three mandatory keys together
\* with exactly the optional fields that are set.
C4_KeysMatch ==
    encoded =>
        /\ Keys(payload) = MandatoryKeys \cup SetOptionalKeys(params)
        /\ NoDuplicateKeys(payload)

C4_Witness ==
    /\ encoded
    /\ SetOptionalKeys(params) = {"customer", "line_items", "mode"}
    /\ Keys(payload) = MandatoryKeys \cup {"customer", "line_items", "mode"}

\* C5: setting customer_email to e on a request that had it unset adds
\* exactly the key customer_email with value e and changes no other key.
C5_EmailFrame ==
    (encoded /\ IsSome(params.customer_email)) =>
        LET without == SerializeCreateCheckoutSession(
                           [params EXCEPT !.customer_email = None])
        IN  /\ Len(payload.fields) = Len(without.fields) + 1
            /\ Keys(payload) = Keys(without) \cup {"customer_email"}
            /\ ~HasKey(without, "customer_email")
            /\ ValuesAt(payload, "customer_email")
                 = {SerStr(params.customer_email[1])}
            /\ \A k \in Keys(without) : ValuesAt(payload, k) = ValuesAt(without, k)

C5_Witness ==
    /\ encoded
    /\ params.customer_email = Some("a@b.com")
    /\ IsSome(params.customer)
    /\ IsSome(params.line_items)
    /\ ValuesAt(payload, "customer_email") = {SerStr("a@b.com")}

-----------------------------------------------------------------------------
(* CheckoutSession::create *)

Ok(session) == [ok |-> TRUE, session |-> session]

Err(e) == [ok |-> FALSE, error |-> e]

\* what the transport may answer to a submission
Outcomes ==
    {Ok("cs_test_1"), Err("network"), Err("authentication"), Err("validation")}

\* Client::post_form: one form-encoded POST of form to path; r is the
\* transport's answer
post_form(path, form, r) ==
    [request |-> [method |-> "POST",
                  path |-> path,
                  body |-> [encoding |-> "form",
                            payload |-> SerializeCreateCheckoutSession(form)]],
     response |-> r]

\* a layer that fills in a default mode before submitting
create_Defaulting(p, r) ==
    LET q == IF IsSome(p.mode) THEN p ELSE [p EXCEPT !.mode = Some("Payment")]
        s == post_form("/checkout/sessions", q, r)
    IN  [sent |-> <<s>>, result |-> s.response]

\* a layer that turns a transport error into an empty session
create_SwallowError(p, r) ==
    LET s == post_form("/checkout/sessions", p, r)
    IN  [sent |-> <<s>>, result |-> IF r.ok THEN s.response ELSE Ok("")]

\* a layer that submits a second time when the first submission fails
create_RetryOnError(p, r) ==
    LET s == post_form("/checkout/sessions", p, r)
    IN  [sent |-> IF r.ok THEN <<s>> ELSE <<s, s>>, result |-> s.response]

\* a layer that rejects an empty payment_method_types list itself
create_Validating(p, r) ==
    LET s == post_form("/checkout/sessions", p, r)
    IN  IF p.payment_method_types = << >>
        THEN [sent |-> << >>, result |-> Err("invalid_request")]
        ELSE [sent |-> <<s>>, result |-> s.response]

\* CheckoutSession::create(client, params): the submissions it makes and
\* the result it returns
create(p, r) ==
    LET s == post_form("/checkout/sessions", p, r)
    IN  [sent |-> <<s>>, result |-> s.response]

BaseParams ==
    [cancel_url |-> "https://a/x",
     payment_method_types |-> <<"card">>,
     success_url |-> "https://a/y",
     client_reference_id |-> None,
     customer |-> None,
     customer_email |-> None,
     billing_address_collection |-> None,
     line_items |-> None,
     locale |-> None,
     mode |-> None,
     submit_type |-> None]

\* the params the callers pass: two well-formed requests and requests the
\* remote API would reject
CallParams ==
    {BaseParams,
     [BaseParams EXCEPT !.customer_email = Some("a@b.com"),
                        !.line_items = Some(<<BasicItem>>),
                        !.mode = Some("Payment")],
     [BaseParams EXCEPT !.payment_method_types = << >>],
     [BaseParams EXCEPT !.cancel_url = "", !.success_url = "not a url"],
     [BaseParams EXCEPT !.line_items = Some(<<[BasicItem EXCEPT !.quantity = 0]>>)],
     [BaseParams EXCEPT !.billing_address_collection = Some("bogus")]}

Init ==
    /\ params = BaseParams
    /\ encoded = FALSE
    /\ payload = NotEncoded
    /\ called = << >>
    /\ submitted = << >>
    /\ returned = << >>

\* the transport's log entries of call i
Logged(i, sent) ==
    [j \in 1..Len(sent) |->
        [call |-> i, request |-> sent[j].request, response |-> sent[j].response]]

\* a layer that remembers the customer_email of the previous call
Create_StickyEmail(p, r) ==
    /\ Len(called) < MaxCalls
    /\ LET q == IF called # << >> /\ ~IsSome(p.customer_email)
                THEN [p EXCEPT !.customer_email = called[Len(called)].customer_email]
                ELSE p
           c == create(q, r)
       IN  /\ called' = Append(called, p)
           /\ submitted' = submitted \o Logged(Len(called) + 1, c.sent)
           /\ returned' = Append(returned, c.result)
    /\ UNCHANGED <<params, encoded, payload>>

\* one call of CheckoutSession::create with params p, answered r by the
\* transport
Create(p, r) ==
    /\ Len(called) < MaxCalls
    /\ LET c == create(p, r)
       IN  /\ called' = Append(called, p)
           /\ submitted' = submitted \o Logged(Len(called) + 1, c.sent)
           /\ returned' = Append(returned, c.result)
    /\ UNCHANGED <<params, encoded, payload>>

Next == \E p \in CallParams, r \in Outcomes : Create(p, r)

Spec == Init /\ [][Next]_vars

-----------------------------------------------------------------------------
(* Properties of create *)

CreatePath == "/checkout/sessions"

\* the indices of the transport's log entries made by call i
SubmissionsOf(i) == {j \in 1..Len(submitted) : submitted[j].call = i}

RequestsOf(i) == {submitted[j].request : j \in SubmissionsOf(i)}

\* C6: every call of create issues a form-encoded POST against the fixed
\* path /checkout/sessions whose body is the encoding of exactly the params
\* the caller passed.
C6_FixedPathExactBody ==
    /\ \A i \in 1..Len(called) : SubmissionsOf(i) # {}
    /\ \A j \in 1..Len(submitted) :
          LET req == submitted[j].request
          IN  /\ req.method = "POST"
              /\ req.path = CreatePath
              /\ req.body.encoding = "form"
              /\ req.body.payload
                   = SerializeCreateCheckoutSession(called[submitted[j].call])

C6_Witness ==
    /\ Len(called) = 2
    /\ called[1] = BaseParams
    /\ IsSome(called[2].customer_email)
    /\ Len(submitted) = 2
    /\ HasKey(submitted[2].request.body.payload, "customer_email")
    /\ ~HasKey(submitted[1].request.body.payload, "mode")

\* C7: the result of create is exactly the result post_form produced for
\* that call: an error stays that error, a session stays that session.
C7_ResultPassThrough ==
    /\ Len(returned) = Len(called)
    /\ \A i \in 1..Len(called) :
          returned[i] \in {submitted[j].response : j \in SubmissionsOf(i)}
    /\ \A j \in 1..Len(submitted) :
          returned[submitted[j].call] = submitted[j].response

C7_Witness ==
    /\ Len(returned) = 3
    /\ returned[1] = Err("authentication")
    /\ returned[2] = Ok("cs_test_1")
    /\ returned[3] = Err("validation")
    /\ submitted[1].response = Err("authentication")

\* C8: each call of create hands its request to the transport exactly once,
\* also when the submission ends in an error.
C8_ExactlyOneSubmission ==
    /\ Len(submitted) = Len(called)
    /\ \A i \in 1..Len(called) : Cardinality(SubmissionsOf(i)) = 1

C8_Witness ==
    /\ Len(called) = 2
    /\ ~returned[1].ok
    /\ ~returned[2].ok
    /\ called[1] = called[2]
    /\ Len(submitted) = 2

\* params the remote API would reject
Invalid(p) ==
    \/ p.payment_method_types = << >>
    \/ p.cancel_url = ""
    \/ p.success_url = "not a url"
    \/ /\ IsSome(p.billing_address_collection)
       /\ p.billing_address_collection[1] \notin {"auto", "required"}
    \/ /\ IsSome(p.line_items)
       /\ \E i \in 1..Len(p.line_items[1]) : p.line_items[1][i].quantity = 0

\* C9: create validates nothing locally: params the remote API would reject
\* are still submitted, and the call's result is the transport's answer.
C9_NoLocalValidation ==
    \A i \in 1..Len(called) :
        Invalid(called[i]) =>
            \E j \in SubmissionsOf(i) :
                /\ submitted[j].request.body.payload
                     = SerializeCreateCheckoutSession(called[i])
                /\ returned[i] = submitted[j].response
                /\ returned[i] \in Outcomes

C9_Witness ==
    /\ Len(called) = 3
    /\ called[1].payment_method_types = << >>
    /\ called[2].billing_address_collection = Some("bogus")
    /\ IsSome(called[3].line_items)
    /\ called[3].line_items[1][1].quantity = 0
    /\ \A i \in 1..3 : Invalid(called[i]) /\ SubmissionsOf(i) # {}
    /\ returned[1].ok

\* C10: create is stateless across calls: two calls with equal params submit
\* identical requests whatever calls came between them.
C10_Stateless ==
    \A i, k \in 1..Len(called) :
        called[i] = called[k] => RequestsOf(i) = RequestsOf(k)

C10_Witness ==
    /\ Len(called) = 3
    /\ called[1] = called[3]
    /\ called[2] # called[1]
    /\ IsSome(called[2].customer_email)
    /\ returned[1] # returned[3]
    /\ RequestsOf(1) # {}
    /\ RequestsOf(1) = RequestsOf(3)

====
